---------------------------- MODULE Spec2Model ----------------------------
(***************************************************************************)
(* Flight Price API (src/main.py): a process-wide cached credential        *)
(* (token, token_expiry), the token refresh get_amadeus_token, the         *)
(* validity rule is_token_valid and the request handler get_flight_price.  *)
(*                                                                         *)
(* Text is modelled as sequences of one-character strings, timestamps as   *)
(* integer seconds, prices as integer hundredths.                          *)
(***************************************************************************)
EXTENDS Integers, Sequences, FiniteSets, TLC

(***************************************************************************)
(* Bounds of the model.                                                    *)
(***************************************************************************)
NumRequests == 2
MaxTime == 900
MaxTokens == 2
MaxOffers == 1
MaxSelectOffers == 3

Reqs == 1..NumRequests

(***************************************************************************)
(* Python values.                                                          *)
(***************************************************************************)
\* None, for an optional text value (duration: str = None, params.get(...))
NoneValue == <<"<None>">>
\* token = ""
EmptyToken == 0
\* token_expiry = None
NoExpiry == -1

\* truthiness of an optional text value: `if duration`
Truthy(s) == s # NoneValue /\ s # <<>>

(***************************************************************************)
(* re.match(r"(\d+)\s*days", duration, re.IGNORECASE)                      *)
(***************************************************************************)
Digits == <<"0", "1", "2", "3", "4", "5", "6", "7", "8", "9">>

IsDigit(c) == \E i \in 1..10 : Digits[i] = c

DigitVal(c) == (CHOOSE i \in 1..10 : Digits[i] = c) - 1

IsSpace(c) == c \in {" ", "\t"}

\* re.IGNORECASE on the literal "days"
Lower(c) ==
  CASE c = "D" -> "d"
    [] c = "A" -> "a"
    [] c = "Y" -> "y"
    [] c = "S" -> "s"
    [] OTHER -> c

RECURSIVE DigitRun(_)
\* length of the longest prefix of digits: the greedy \d+
DigitRun(s) ==
  IF s # <<>> /\ IsDigit(Head(s)) THEN 1 + DigitRun(Tail(s)) ELSE 0

RECURSIVE SpaceRun(_)
\* length of the longest prefix of whitespace: the greedy \s*
SpaceRun(s) ==
  IF s # <<>> /\ IsSpace(Head(s)) THEN 1 + SpaceRun(Tail(s)) ELSE 0

Drop(s, k) == SubSeq(s, k + 1, Len(s))

\* the pattern (\d+)days, without \s*
ReMatchDaysNoSpace(s) ==
  LET k == DigitRun(s)
      rest == Drop(s, k)
  IN IF /\ k >= 1
        /\ Len(rest) >= 4
        /\ <<Lower(rest[1]), Lower(rest[2]), Lower(rest[3]), Lower(rest[4])>>
             = <<"d", "a", "y", "s">>
     THEN SubSeq(s, 1, k)
     ELSE <<>>

\* group(1) of the match, or <<>> when there is no match.  re.match anchors
\* at the start of the string only; nothing is required after "days".
ReMatchDays(s) ==
  LET k == DigitRun(s)
      rest == Drop(Drop(s, k), SpaceRun(Drop(s, k)))
  IN IF /\ k >= 1
        /\ Len(rest) >= 4
        /\ <<Lower(rest[1]), Lower(rest[2]), Lower(rest[3]), Lower(rest[4])>>
             = <<"d", "a", "y", "s">>
     THEN SubSeq(s, 1, k)
     ELSE <<>>

RECURSIVE ParseInt(_)
\* int(match.group(1))
ParseInt(ds) ==
  IF ds = <<>> THEN 0
  ELSE 10 * ParseInt(SubSeq(ds, 1, Len(ds) - 1)) + DigitVal(ds[Len(ds)])

(***************************************************************************)
(* datetime.strptime(departure_date, "%Y-%m-%d").date(), date + timedelta, *)
(* strftime("%Y-%m-%d")                                                    *)
(***************************************************************************)
MAXYEAR == 9999

IsLeap(y) == y % 4 = 0 /\ (y % 100 # 0 \/ y % 400 = 0)

DaysInMonth(y, m) ==
  IF m = 2 THEN (IF IsLeap(y) THEN 29 ELSE 28)
  ELSE IF m \in {4, 6, 9, 11} THEN 30 ELSE 31

\* days in the year before the first day of month m
DaysBeforeMonth(y, m) ==
  <<0, 31, 59, 90, 120, 151, 181, 212, 243, 273, 304, 334>>[m]
    + (IF m > 2 /\ IsLeap(y) THEN 1 ELSE 0)

\* days before January 1st of year y
DaysBeforeYear(y) ==
  (y - 1) * 365 + ((y - 1) \div 4) - ((y - 1) \div 100) + ((y - 1) \div 400)

\* date.toordinal(): 0001-01-01 is day 1
ToOrdinal(d) == DaysBeforeYear(d.y) + DaysBeforeMonth(d.y, d.m) + d.d

MaxOrdinal == ToOrdinal([y |-> MAXYEAR, m |-> 12, d |-> 31])

\* date.fromordinal(n)
FromOrdinal(n) ==
  LET n0 == n - 1
      n400 == n0 \div 146097
      r400 == n0 % 146097
      n100 == r400 \div 36524
      r100 == r400 % 36524
      n4 == r100 \div 1461
      r4 == r100 % 1461
      n1 == r4 \div 365
      r1 == r4 % 365
      year == n400 * 400 + 1 + n100 * 100 + n4 * 4 + n1
  IN IF n1 = 4 \/ n100 = 4
     THEN [y |-> year - 1, m |-> 12, d |-> 31]
     ELSE LET mo == CHOOSE m \in 1..12 :
                      /\ DaysBeforeMonth(year, m) <= r1
                      /\ r1 < DaysBeforeMonth(year, m) + DaysInMonth(year, m)
          IN [y |-> year, m |-> mo, d |-> r1 - DaysBeforeMonth(year, mo) + 1]

\* the fields of s separated by "-"
RECURSIVE SplitDash(_)
SplitDash(s) ==
  IF \A i \in 1..Len(s) : s[i] # "-" THEN <<s>>
  ELSE LET p == CHOOSE i \in 1..Len(s) :
                  s[i] = "-" /\ \A j \in 1..(i - 1) : s[j] # "-"
       IN <<SubSeq(s, 1, p - 1)>> \o SplitDash(Drop(s, p))

AllDigits(s) == s # <<>> /\ \A i \in 1..Len(s) : IsDigit(s[i])

\* strptime accepts: a 4-digit year, a 1- or 2-digit month in 1..12, a 1- or
\* 2-digit day in 1..31, and then requires the day to exist in the month
StrptimeOk(s) ==
  LET f == SplitDash(s)
  IN /\ Len(f) = 3
     /\ AllDigits(f[1]) /\ Len(f[1]) = 4 /\ ParseInt(f[1]) >= 1
     /\ AllDigits(f[2]) /\ Len(f[2]) <= 2 /\ ParseInt(f[2]) \in 1..12
     /\ AllDigits(f[3]) /\ Len(f[3]) <= 2
     /\ ParseInt(f[3]) \in 1..DaysInMonth(ParseInt(f[1]), ParseInt(f[2]))

Strptime(s) ==
  LET f == SplitDash(s)
  IN [y |-> ParseInt(f[1]), m |-> ParseInt(f[2]), d |-> ParseInt(f[3])]

Pad(n, w) == [i \in 1..w |-> Digits[((n \div (10 ^ (w - i))) % 10) + 1]]

\* strftime("%Y-%m-%d") for years of four digits
Strftime(d) == Pad(d.y, 4) \o <<"-">> \o Pad(d.m, 2) \o <<"-">> \o Pad(d.d, 2)


(***************************************************************************)
(* The provider's responses (requests.post / requests.get).                *)
(***************************************************************************)
\* Response.raise_for_status(): raises HTTPError for 4xx and 5xx only
RaiseForStatus(status) == status >= 400 /\ status < 600

ExpiresIns == {300, 900}

TokenStatuses == {200, 401, 503}

\* requests.post(url, ...) either raises (no response) or returns a response;
\* a 2xx body is {access_token, expires_in}
TokenResponses ==
  {[kind |-> "network_error", status |-> 0, expires_in |-> 0]}
    \cup {[kind |-> "http", status |-> s, expires_in |-> 0] :
            s \in {t \in TokenStatuses : RaiseForStatus(t)}}
    \cup {[kind |-> "http", status |-> s, expires_in |-> e] :
            s \in {t \in TokenStatuses : ~RaiseForStatus(t)}, e \in ExpiresIns}

Segment ==
  [carrierCode |-> "AI", number |-> "101",
   departure |-> [iataCode |-> "DEL", at |-> "T1"],
   arrival |-> [iataCode |-> "BOM", at |-> "T2"],
   duration |-> "PT2H"]

OutItin == [duration |-> "PT2H", segments |-> <<Segment>>]

RetItin == [duration |-> "PT4H", segments |-> <<Segment, Segment>>]

PriceStrs == {<<"5">>, <<"5", ".", "0">>, <<"3">>, <<"9", ".", "5">>}

OfferSet ==
  {[price |-> [grandTotal |-> p], itineraries |-> it] :
     p \in PriceStrs, it \in {<<OutItin>>, <<OutItin, RetItin>>}}

SeqsUpTo(S, n) == UNION {[1..k -> S] : k \in 0..n}

SearchStatuses == {200, 400, 401, 404, 503}

\* requests.get(url, ...) either raises (no response) or returns a response
\* whose body is JSON or not; a 2xx JSON body is an object with or without
\* the key "data"
SearchResponses(n) ==
  {[kind |-> "network_error", status |-> 0, json |-> FALSE,
    has_data |-> FALSE, data |-> <<>>]}
    \cup {[kind |-> "http", status |-> s, json |-> j,
           has_data |-> FALSE, data |-> <<>>] :
            s \in SearchStatuses, j \in BOOLEAN}
    \cup {[kind |-> "http", status |-> s, json |-> TRUE,
           has_data |-> TRUE, data |-> d] :
            s \in {t \in SearchStatuses : ~RaiseForStatus(t)},
            d \in SeqsUpTo(OfferSet, n)}

\* str(e) of the exception raised by the call
ErrText(resp) ==
  IF resp.kind = "network_error" THEN "ConnectionError"
  ELSE IF RaiseForStatus(resp.status) THEN "HTTPError"
  ELSE "JSONDecodeError"

(***************************************************************************)
(* Offer selection and response shaping.                                   *)
(***************************************************************************)
\* float(x["price"]["grandTotal"]), in hundredths
ParseFloat(s) ==
  LET dots == {i \in 1..Len(s) : s[i] = "."}
      p == IF dots = {} THEN Len(s) + 1 ELSE CHOOSE i \in dots : TRUE
      ip == SubSeq(s, 1, p - 1)
      fp == Drop(s, p)
      f2 == SubSeq(fp \o <<"0", "0">>, 1, 2)
  IN 100 * ParseInt(ip) + ParseInt(f2)

RECURSIVE MinScanLast(_, _, _)
\* the loop with <= in place of <: the last minimum wins
MinScanLast(offers, i, best) ==
  IF i > Len(offers) THEN best
  ELSE IF ParseFloat(offers[i].price.grandTotal)
            <= ParseFloat(offers[best].price.grandTotal)
       THEN MinScanLast(offers, i + 1, i)
       ELSE MinScanLast(offers, i + 1, best)

RECURSIVE MinScan(_, _, _)
\* the loop of min(iterable, key=...): a later element replaces the current
\* best only when its key is strictly smaller
MinScan(offers, i, best) ==
  IF i > Len(offers) THEN best
  ELSE IF ParseFloat(offers[i].price.grandTotal)
            < ParseFloat(offers[best].price.grandTotal)
       THEN MinScan(offers, i + 1, i)
       ELSE MinScan(offers, i + 1, best)

\* index of min(flight_offers, key=lambda x: float(x["price"]["grandTotal"]))
CheapestIndex(offers) == MinScan(offers, 2, 1)

CheapestOffer(offers) == offers[CheapestIndex(offers)]

ParseSegment(segment) ==
  [airline_code |-> segment.carrierCode,
   flight_number |-> segment.number,
   departure_airport |-> segment.departure.iataCode,
   departure_time |-> segment.departure.at,
   arrival_airport |-> segment.arrival.iataCode,
   arrival_time |-> segment.arrival.at,
   duration |-> segment.duration]

ParseItineraryDetails(itinerary) ==
  [total_duration |-> itinerary.duration,
   segments |-> [i \in 1..Len(itinerary.segments) |->
                   ParseSegment(itinerary.segments[i])]]

JourneyType(duration) == IF Truthy(duration) THEN "two-way" ELSE "one-way"

\* whether the second itinerary is added to the response
IncludesReturn(duration, offer) ==
  Truthy(duration) /\ Len(offer.itineraries) > 1

\* response_data; a dict is a record whose domain is the set of its keys
ResponseData(offers, duration, returnDate) ==
  LET cheapest_offer == CheapestOffer(offers)
  IN IF IncludesReturn(duration, cheapest_offer)
     THEN [journey_type |-> JourneyType(duration),
           total_price_in_inr |-> ParseFloat(cheapest_offer.price.grandTotal),
           outbound_journey |->
             ParseItineraryDetails(cheapest_offer.itineraries[1]),
           return_journey |->
             ParseItineraryDetails(cheapest_offer.itineraries[2]),
           return_date |-> returnDate]
     ELSE [journey_type |-> JourneyType(duration),
           total_price_in_inr |-> ParseFloat(cheapest_offer.price.grandTotal),
           outbound_journey |->
             ParseItineraryDetails(cheapest_offer.itineraries[1])]

NoOffersMessage ==
  [message |-> "No flight offers found for the specified criteria."]


(***************************************************************************)
(* The requests a caller can make.                                         *)
(***************************************************************************)
\* duration: absent (None), empty, or text
Durations ==
  {NoneValue, <<>>,
   <<"3", " ", "w", "e", "e", "k", "s">>,
   <<"a", "b", "c", " ", "d", "a", "y", "s">>,
   <<"3", " ", "d", "a", "y", "s">>,
   <<"2", "D", "A", "Y", "S">>,
   <<" ", "3", " ", "d", "a", "y", "s">>,
   <<"3", "0", " ", "D", "a", "y", "s", " ">>,
   <<"1", " ", "d", "a", "y", "s", "x">>}

\* departure_date: any text; the handler parses it only for a two-way search
DepartureDates ==
  {<<"2", "0", "2", "4", "-", "0", "2", "-", "2", "8">>,
   <<"9", "9", "9", "9", "-", "1", "2", "-", "3", "0">>,
   <<"2", "0", "2", "4", "-", "2", "-", "9">>,
   <<"2", "0", "2", "4", "-", "0", "2", "-", "3", "0">>}

(***************************************************************************)
(* State.                                                                  *)
(***************************************************************************)
VARIABLES
  phase,          \* "boot" (module loaded), "serving", "exited"
  now,            \* datetime.now(), in seconds
  token,          \* the global token: EmptyToken or an access_token
  token_expiry,   \* the global token_expiry: NoExpiry or a timestamp
  expiry_from,    \* history: access_token of the response token_expiry was computed from
  tokens_issued,  \* the provider's count of access tokens handed out
  pc,             \* position of each request's handler
  req,            \* each request's arguments, locals and response
  sel             \* offer selection applied to a drawn offer list

vars ==
  <<phase, now, token, token_expiry, expiry_from, tokens_issued, pc, req, sel>>

NoTokenData == [access_token |-> EmptyToken, expires_in |-> 0]

NoSent == [issued |-> FALSE, bearer |-> EmptyToken, returnDate |-> NoneValue]

\* the local `response` of get_amadeus_token and of get_flight_price: unbound
\* until the call returns one
NoResponse == [kind |-> "unbound", status |-> 0, json |-> FALSE, offers |-> 0]

NoOutcome == [kind |-> "none", status |-> 0, detail |-> <<>>]

NoPayload == [none |-> TRUE]

IdleReq ==
  [duration |-> NoneValue, departure_date |-> <<>>, checked_at |-> 0,
   token0 |-> EmptyToken, expiry0 |-> NoExpiry, token_data |-> NoTokenData,
   token_response |-> NoResponse, response |-> NoResponse,
   calls |-> <<>>, returnDate |-> NoneValue, sent |-> NoSent,
   outcome |-> NoOutcome, payload |-> NoPayload]

SelIdle == [offers |-> <<>>, done |-> FALSE, chosen |-> 0, payload |-> NoPayload]

\* module load: token = "", token_expiry = None, no request in progress
InitServer ==
  /\ phase = "boot"
  /\ now = 0
  /\ token = EmptyToken
  /\ token_expiry = NoExpiry
  /\ expiry_from = EmptyToken
  /\ tokens_issued = 0
  /\ pc = [r \in Reqs |-> "idle"]
  /\ req = [r \in Reqs |-> IdleReq]

Init ==
  /\ InitServer
  /\ sel = SelIdle

(***************************************************************************)
(* Token manager.                                                          *)
(***************************************************************************)
MarginMinutes == 5

SecondsPerMinute == 60

\* is_token_valid with >= in place of >: a token expiring exactly 5 minutes
\* ahead passes
IsTokenValidAtMargin(tok, exp, t) ==
  /\ tok # EmptyToken
  /\ exp # NoExpiry
  /\ exp >= t + MarginMinutes * SecondsPerMinute

\* is_token_valid without the expiry test
IsTokenValidNoExpiry(tok, exp, t) == tok # EmptyToken

\* is_token_valid(), evaluated at time t
IsTokenValid(tok, exp, t) ==
  /\ tok # EmptyToken
  /\ exp # NoExpiry
  /\ exp > t + MarginMinutes * SecondsPerMinute

\* get_amadeus_token without response.raise_for_status()
RefreshFailsNoStatusCheck(resp) == resp.kind = "network_error"

\* the try block of get_amadeus_token ends in the except clause
RefreshFails(resp) ==
  resp.kind = "network_error" \/ RaiseForStatus(resp.status)

\* token_expiry = datetime.now() + timedelta(seconds=token_data["expires_in"])
ExpiryOf(t, token_data) == t + token_data.expires_in

AuthFailedDetail == <<"Failed to authenticate with Amadeus API.">>

\* the access_token of the provider's next 2xx token response
NextAccessToken == tokens_issued + 1

\* python main.py: get_amadeus_token() once, then uvicorn.run(app)
MainStartup(resp) ==
  /\ phase = "boot"
  /\ IF RefreshFails(resp)
     THEN /\ phase' = "exited"
          /\ UNCHANGED <<token, token_expiry, expiry_from, tokens_issued>>
     ELSE /\ phase' = "serving"
          /\ token' = NextAccessToken
          /\ token_expiry' =
               ExpiryOf(now, [access_token |-> NextAccessToken,
                              expires_in |-> resp.expires_in])
          /\ expiry_from' = NextAccessToken
          /\ tokens_issued' = tokens_issued + 1
  /\ UNCHANGED <<now, pc, req, sel>>

\* the module imported by an ASGI server: no token is fetched at startup
ImportStartup ==
  /\ phase = "boot"
  /\ phase' = "serving"
  /\ UNCHANGED <<now, token, token_expiry, expiry_from, tokens_issued, pc, req, sel>>

(***************************************************************************)
(* The handler get_flight_price.                                           *)
(***************************************************************************)
\* get_flight_price as a plain `def`: the framework runs each request in a
\* worker thread and the handlers interleave
ThreadedHandlers(r) == TRUE

\* get_flight_price is a coroutine without await: the event loop runs one
\* handler from its first statement to its return before it starts another
NoOtherRunning(r) == \A q \in Reqs \ {r} : pc[q] = "idle"

\* the request arrives and the handler evaluates `if not is_token_valid()`
Enter(r, duration, departure_date) ==
  /\ phase = "serving"
  /\ pc[r] = "idle"
  /\ NoOtherRunning(r)
  /\ req' = [req EXCEPT ![r] =
               [IdleReq EXCEPT !.duration = duration,
                               !.departure_date = departure_date,
                               !.checked_at = now,
                               !.token0 = token,
                               !.expiry0 = token_expiry]]
  /\ pc' = [pc EXCEPT ![r] =
              IF IsTokenValid(token, token_expiry, now)
              THEN "params" ELSE "token_post"]
  /\ UNCHANGED <<phase, now, token, token_expiry, expiry_from, tokens_issued, sel>>

\* what the local `response` holds after the call: requests raised and it
\* stays unbound, or it is the provider's response
Received(resp) ==
  IF resp.kind = "network_error" THEN NoResponse
  ELSE [kind |-> "http", status |-> resp.status,
        json |-> IF "json" \in DOMAIN resp THEN resp.json ELSE TRUE,
        offers |-> IF "data" \in DOMAIN resp THEN Len(resp.data) ELSE 0]

\* get_amadeus_token: requests.post, raise_for_status, response.json()
TokenPost(r, resp) ==
  /\ pc[r] = "token_post"
  /\ NoOtherRunning(r)
  /\ IF RefreshFails(resp)
     THEN /\ req' = [req EXCEPT ![r].calls = Append(@, "token"),
                                ![r].token_response = Received(resp),
                                ![r].outcome =
                                  [kind |-> "http_error", status |-> 500,
                                   detail |-> AuthFailedDetail]]
          /\ pc' = [pc EXCEPT ![r] = "done"]
          /\ UNCHANGED tokens_issued
     ELSE /\ tokens_issued < MaxTokens
          /\ req' = [req EXCEPT ![r].calls = Append(@, "token"),
                                ![r].token_response = Received(resp),
                                ![r].token_data =
                                  [access_token |-> NextAccessToken,
                                   expires_in |-> resp.expires_in]]
          /\ tokens_issued' = tokens_issued + 1
          /\ pc' = [pc EXCEPT ![r] = "store_token"]
  /\ UNCHANGED <<phase, now, token, token_expiry, expiry_from, sel>>

\* token = token_data["access_token"]
StoreToken(r) ==
  /\ pc[r] = "store_token"
  /\ NoOtherRunning(r)
  /\ token' = req[r].token_data.access_token
  /\ pc' = [pc EXCEPT ![r] = "store_expiry"]
  /\ UNCHANGED <<phase, now, token_expiry, expiry_from, tokens_issued, req, sel>>

\* token_expiry = datetime.now() + timedelta(seconds=...)
StoreExpiry(r) ==
  /\ pc[r] = "store_expiry"
  /\ NoOtherRunning(r)
  /\ token_expiry' = ExpiryOf(now, req[r].token_data)
  /\ expiry_from' = req[r].token_data.access_token
  /\ pc' = [pc EXCEPT ![r] = "params"]
  /\ UNCHANGED <<phase, now, token, tokens_issued, req, sel>>

InvalidDurationDetail == <<"Invalid duration format. Please use 'X days'.">>

StrptimeErrorDetail == <<"time data does not match format '%Y-%m-%d'">>

MaxTimedeltaDays == 999999999

\* the `if duration:` block: what it leaves in params["returnDate"] and how
\* it ends ("ok", "http_error" for the HTTPException(400), "unhandled" for an
\* exception the except clause does not name)
ParseDuration(duration, departure_date) ==
  LET group1 == ReMatchDays(duration)
      days_to_add == ParseInt(group1)
      ordinal == ToOrdinal(Strptime(departure_date)) + days_to_add
  IN IF ~Truthy(duration)
     THEN [end |-> "ok", returnDate |-> NoneValue, detail |-> <<>>]
     ELSE IF group1 = <<>>
     THEN [end |-> "http_error", returnDate |-> NoneValue,
           detail |-> InvalidDurationDetail]
     ELSE IF ~StrptimeOk(departure_date)
     THEN [end |-> "http_error", returnDate |-> NoneValue,
           detail |-> StrptimeErrorDetail]
     ELSE IF days_to_add > MaxTimedeltaDays \/ ordinal > MaxOrdinal
     THEN [end |-> "unhandled", returnDate |-> NoneValue,
           detail |-> <<"OverflowError">>]
     ELSE [end |-> "ok", returnDate |-> Strftime(FromOrdinal(ordinal)),
           detail |-> <<>>]

\* params = {...}; if duration: ...
BuildParams(r) ==
  /\ pc[r] = "params"
  /\ NoOtherRunning(r)
  /\ LET p == ParseDuration(req[r].duration, req[r].departure_date)
     IN IF p.end = "ok"
        THEN /\ req' = [req EXCEPT ![r].returnDate = p.returnDate]
             /\ pc' = [pc EXCEPT ![r] = "search"]
        ELSE /\ req' = [req EXCEPT ![r].outcome =
                          [kind |-> p.end,
                           status |-> IF p.end = "http_error" THEN 400 ELSE 500,
                           detail |-> p.detail]]
             /\ pc' = [pc EXCEPT ![r] = "done"]
  /\ UNCHANGED <<phase, now, token, token_expiry, expiry_from, tokens_issued, sel>>


\* detail = f"An error occurred while fetching flight data: {e}"
FetchErrorDetail(resp) ==
  <<"An error occurred while fetching flight data: ", ErrText(resp)>>

\* the detail chosen by the status code once response.json() has succeeded
ClassifiedDetail(resp) ==
  CASE resp.status = 400 ->
         <<"Bad request to Amadeus API. Please check your parameters. Error: ",
           "error_json">>
    [] resp.status = 401 ->
         <<"Amadeus authentication failed. Please check your API key and secret.">>
    [] resp.status = 404 ->
         <<"The requested resource was not found on the Amadeus API.">>
    [] OTHER -> FetchErrorDetail(resp)

\* the except clause: RequestException caught, then response.json() on the
\* response of the outer try block
HandleRequestException(resp) ==
  IF resp.kind = "network_error"
  THEN \* `response` was never assigned: UnboundLocalError, which
       \* except (ValueError, AttributeError) does not catch
       [kind |-> "unhandled", status |-> 500, detail |-> <<"UnboundLocalError">>]
  ELSE IF resp.json
  THEN [kind |-> "http_error", status |-> resp.status,
        detail |-> ClassifiedDetail(resp)]
  ELSE [kind |-> "http_error", status |-> 500, detail |-> <<ErrText(resp)>>]

\* the handler with an empty offer list answered by HTTPException(404)
SearchOutcomeEmptyIsError(resp, json_error_caught, duration, returnDate) ==
  LET flight_offers == IF resp.has_data THEN resp.data ELSE <<>>
  IN IF resp.kind = "network_error" \/ RaiseForStatus(resp.status)
     THEN [outcome |-> HandleRequestException(resp), payload |-> NoPayload]
     ELSE IF ~resp.json
     THEN [outcome |->
             IF json_error_caught THEN HandleRequestException(resp)
             ELSE [kind |-> "unhandled", status |-> 500,
                   detail |-> <<"JSONDecodeError">>],
           payload |-> NoPayload]
     ELSE IF flight_offers = <<>>
     THEN [outcome |-> [kind |-> "http_error", status |-> 404,
                        detail |-> <<"No flight offers found.">>],
           payload |-> NoPayload]
     ELSE [outcome |-> [kind |-> "ok", status |-> 200, detail |-> <<>>],
           payload |-> ResponseData(flight_offers, duration, returnDate)]

\* the try block around requests.get.  json_error_caught: whether the
\* installed requests raises a JSONDecodeError that is a RequestException
\* (2.27 and later) or a plain ValueError
SearchOutcome(resp, json_error_caught, duration, returnDate) ==
  LET flight_offers == IF resp.has_data THEN resp.data ELSE <<>>
  IN IF resp.kind = "network_error" \/ RaiseForStatus(resp.status)
     THEN [outcome |-> HandleRequestException(resp), payload |-> NoPayload]
     ELSE IF ~resp.json
     THEN [outcome |->
             IF json_error_caught THEN HandleRequestException(resp)
             ELSE [kind |-> "unhandled", status |-> 500,
                   detail |-> <<"JSONDecodeError">>],
           payload |-> NoPayload]
     ELSE IF flight_offers = <<>>
     THEN [outcome |-> [kind |-> "ok", status |-> 200, detail |-> <<>>],
           payload |-> NoOffersMessage]
     ELSE [outcome |-> [kind |-> "ok", status |-> 200, detail |-> <<>>],
           payload |-> ResponseData(flight_offers, duration, returnDate)]

\* the installed version of requests matters only when response.json() of
\* a 2xx response fails
JsonErrorKinds(resp) ==
  IF resp.kind = "http" /\ ~RaiseForStatus(resp.status) /\ ~resp.json
  THEN BOOLEAN ELSE {TRUE}

\* headers = {"Authorization": f"Bearer {token}"}; requests.get(...) and the
\* rest of the handler
Search(r, resp, json_error_caught) ==
  /\ pc[r] = "search"
  /\ NoOtherRunning(r)
  /\ LET o == SearchOutcome(resp, json_error_caught,
                            req[r].duration, req[r].returnDate)
     IN req' = [req EXCEPT ![r].calls = Append(@, "search"),
                           ![r].response = Received(resp),
                           ![r].sent = [issued |-> TRUE, bearer |-> token,
                                        returnDate |-> req[r].returnDate],
                           ![r].outcome = o.outcome,
                           ![r].payload = o.payload]
  /\ pc' = [pc EXCEPT ![r] = "done"]
  /\ UNCHANGED <<phase, now, token, token_expiry, expiry_from, tokens_issued, sel>>

\* the response is sent and the handler's frame is gone
Return(r) ==
  /\ pc[r] = "done"
  /\ pc' = [pc EXCEPT ![r] = "idle"]
  /\ req' = [req EXCEPT ![r] = IdleReq]
  /\ UNCHANGED <<phase, now, token, token_expiry, expiry_from, tokens_issued, sel>>

TickStep == 300

\* time passes, also while a handler waits for the provider
Tick ==
  /\ phase # "exited"
  /\ now + TickStep <= MaxTime
  /\ now' = now + TickStep
  /\ UNCHANGED <<phase, token, token_expiry, expiry_from, tokens_issued, pc, req, sel>>

Next ==
  \/ \E resp \in TokenResponses : MainStartup(resp)
  \/ ImportStartup
  \/ \E r \in Reqs, d \in Durations, dd \in DepartureDates : Enter(r, d, dd)
  \/ \E r \in Reqs, resp \in TokenResponses : TokenPost(r, resp)
  \/ \E r \in Reqs : StoreToken(r)
  \/ \E r \in Reqs : StoreExpiry(r)
  \/ \E r \in Reqs : BuildParams(r)
  \/ \E r \in Reqs, resp \in SearchResponses(MaxOffers) :
       \E j \in JsonErrorKinds(resp) : Search(r, resp, j)
  \/ \E r \in Reqs : Return(r)
  \/ Tick

Spec == Init /\ [][Next]_vars

(***************************************************************************)
(* The credential on its own: the same server with every request a one-way *)
(* search.  duration and departure_date are never read by the token        *)
(* manager.                                                                *)
(***************************************************************************)
OneWayDate == <<"2", "0", "2", "4", "-", "0", "2", "-", "2", "8">>

CredentialNext ==
  \/ \E resp \in TokenResponses : MainStartup(resp)
  \/ ImportStartup
  \/ \E r \in Reqs : Enter(r, NoneValue, OneWayDate)
  \/ \E r \in Reqs, resp \in TokenResponses : TokenPost(r, resp)
  \/ \E r \in Reqs : StoreToken(r)
  \/ \E r \in Reqs : StoreExpiry(r)
  \/ \E r \in Reqs : BuildParams(r)
  \/ \E r \in Reqs, resp \in SearchResponses(MaxOffers) :
       \E j \in JsonErrorKinds(resp) : Search(r, resp, j)
  \/ \E r \in Reqs : Return(r)
  \/ Tick

SpecCredential == Init /\ [][CredentialNext]_vars

(***************************************************************************)
(* Offer selection on its own: the offer list is drawn, then the handler's *)
(* selection and shaping are applied to it.                                *)
(***************************************************************************)
SelectInit ==
  /\ InitServer
  /\ \E offers \in SeqsUpTo(OfferSet, MaxSelectOffers) \ {<<>>} :
       sel = [SelIdle EXCEPT !.offers = offers]

SelectCheapest ==
  /\ ~sel.done
  /\ sel.offers # <<>>
  /\ sel' = [sel EXCEPT !.done = TRUE,
                        !.chosen = CheapestIndex(sel.offers),
                        !.payload = ResponseData(sel.offers, NoneValue, NoneValue)]
  /\ UNCHANGED <<phase, now, token, token_expiry, expiry_from, tokens_issued, pc, req>>

SelectNext == SelectCheapest

SpecSelect == SelectInit /\ [][SelectNext]_vars


(***************************************************************************)
(* Vocabulary of the properties, stated without the handler's operators.   *)
(***************************************************************************)
Called(r, what) == \E i \in 1..Len(req[r].calls) : req[r].calls[i] = what

Is2xx(status) == status >= 200 /\ status <= 299

IsDaysWord(s, i) ==
  /\ i + 3 <= Len(s)
  /\ s[i] \in {"d", "D"} /\ s[i + 1] \in {"a", "A"}
  /\ s[i + 2] \in {"y", "Y"} /\ s[i + 3] \in {"s", "S"}

AllIn(s, lo, hi, S) == \A i \in lo..hi : s[i] \in S

DigitChars == {"0", "1", "2", "3", "4", "5", "6", "7", "8", "9"}

SpaceChars == {" ", "\t"}

\* s is: a leading spaces, digits up to position k, spaces up to position j,
\* the word "days" in any case, then spaces only when strict, anything otherwise
DaysShape(s, a, k, j, strict) ==
  /\ AllIn(s, 1, a, SpaceChars)
  /\ k > a /\ AllIn(s, a + 1, k, DigitChars)
  /\ j >= k /\ AllIn(s, k + 1, j, SpaceChars)
  /\ IsDaysWord(s, j + 1)
  /\ strict => AllIn(s, j + 5, Len(s), SpaceChars)

\* the pattern ^\s*(\d+)\s*days\s*$, case-insensitive
MatchesAnchoredPattern(s) ==
  \E a \in 0..Len(s), k \in 1..Len(s), j \in 1..Len(s) : DaysShape(s, a, k, j, TRUE)

\* digits at the very start, optional whitespace, "days"; anything may follow
MatchesAtStart(s) ==
  \E k \in 1..Len(s), j \in 1..Len(s) : DaysShape(s, 0, k, j, FALSE)

\* the number N of a string of either shape
DaysOf(s) ==
  LET digitAt == {i \in 1..Len(s) : s[i] \in DigitChars}
      first == CHOOSE i \in digitAt : \A j \in digitAt : i <= j
      last == CHOOSE i \in digitAt :
                /\ i >= first /\ AllIn(s, first, i, DigitChars)
                /\ (i = Len(s) \/ s[i + 1] \notin DigitChars)
  IN ParseInt(SubSeq(s, first, last))

\* the calendar, day by day
MonthLength(y, m) ==
  CASE m \in {1, 3, 5, 7, 8, 10, 12} -> 31
    [] m \in {4, 6, 9, 11} -> 30
    [] OTHER -> IF (y % 400 = 0) \/ (y % 4 = 0 /\ y % 100 # 0) THEN 29 ELSE 28

NextDay(d) ==
  IF d.d < MonthLength(d.y, d.m) THEN [d EXCEPT !.d = d.d + 1]
  ELSE IF d.m < 12 THEN [y |-> d.y, m |-> d.m + 1, d |-> 1]
  ELSE [y |-> d.y + 1, m |-> 1, d |-> 1]

RECURSIVE PlusDays(_, _)
PlusDays(d, n) == IF n = 0 THEN d ELSE PlusDays(NextDay(d), n - 1)

\* text is the ISO form YYYY-MM-DD of the date d
IsIsoTextOf(text, d) ==
  /\ text # NoneValue
  /\ Len(text) = 10 /\ text[5] = "-" /\ text[8] = "-"
  /\ AllIn(text, 1, 4, DigitChars) /\ AllIn(text, 6, 7, DigitChars)
  /\ AllIn(text, 9, 10, DigitChars)
  /\ ParseInt(SubSeq(text, 1, 4)) = d.y
  /\ ParseInt(SubSeq(text, 6, 7)) = d.m
  /\ ParseInt(SubSeq(text, 9, 10)) = d.d

\* the handler of r has gone past the building of the query parameters
PastParams(r) ==
  \/ pc[r] = "search"
  \/ pc[r] = "done" /\ req[r].token_response.kind # "unbound"
                    /\ Is2xx(req[r].token_response.status)
  \/ pc[r] = "done" /\ ~Called(r, "token")


(***************************************************************************)
(* Properties.                                                             *)
(***************************************************************************)
\* the credential the handler of r found at its start is empty or absent, or
\* its expiry is not more than 5 minutes after the time of the check
StaleAtStart(r) ==
  \/ req[r].token0 = EmptyToken
  \/ req[r].expiry0 = NoExpiry
  \/ req[r].expiry0 - req[r].checked_at <= 5 * 60

\* C1: a request calls the token endpoint if and only if the cached token is
\* empty or absent or token_expiry is not more than 5 minutes after now; a
\* token expiring 10 minutes ahead triggers no refresh, one expiring exactly
\* 5 minutes ahead does.
C1_RefreshIffStale ==
  \A r \in Reqs :
    pc[r] # "idle" =>
      ((pc[r] = "token_post" \/ Called(r, "token")) <=> StaleAtStart(r))

\* a token expiring exactly 5 minutes after the check was refreshed
C1_Witness ==
  \E r \in Reqs :
    /\ Called(r, "token")
    /\ req[r].token0 # EmptyToken
    /\ req[r].expiry0 = req[r].checked_at + 300

\* C2: a request whose duration string does not match "<N> days" ends with
\* an HTTP 400 error and no call to the token endpoint or the search
\* endpoint is made before that error, whatever the credential is.
C2_InvalidDurationFailsFast ==
  \A r \in Reqs :
    (/\ pc[r] # "idle"
     /\ req[r].duration # NoneValue
     /\ ~MatchesAnchoredPattern(req[r].duration))
    => /\ pc[r] \in {"params", "done"}
       /\ req[r].calls = <<>>
       /\ pc[r] = "done" =>
            req[r].outcome.kind = "http_error" /\ req[r].outcome.status = 400

\* C3: every failure of the search call is answered with a classified
\* error: a non-2xx status is propagated as the caller's status whatever the
\* body is, a network failure gives status 500 with the original error text,
\* and the handler never ends in an unhandled exception.
C3_SearchFailureClassified ==
  \A r \in Reqs :
    (pc[r] = "done" /\ req[r].sent.issued) =>
      /\ req[r].outcome.kind # "unhandled"
      /\ (req[r].response.kind = "http" /\ ~Is2xx(req[r].response.status))
           => /\ req[r].outcome.kind = "http_error"
              /\ req[r].outcome.status = req[r].response.status
      /\ req[r].response.kind = "unbound"
           => /\ req[r].outcome.kind = "http_error"
              /\ req[r].outcome.status = 500
              /\ \E i \in 1..Len(req[r].outcome.detail) :
                   req[r].outcome.detail[i] = "ConnectionError"

\* the price a price text denotes, in hundredths
PriceOf(offer) ==
  CASE offer.price.grandTotal = <<"3">> -> 300
    [] offer.price.grandTotal = <<"5">> -> 500
    [] offer.price.grandTotal = <<"5", ".", "0">> -> 500
    [] offer.price.grandTotal = <<"9", ".", "5">> -> 950

\* C4: the selected offer is priced no higher than any offer of the list,
\* it is the first of the offers with the minimum price, and the payload's
\* total price is its grand total.
C4_FirstCheapest ==
  sel.done =>
    /\ sel.chosen \in 1..Len(sel.offers)
    /\ \A i \in 1..Len(sel.offers) :
         PriceOf(sel.offers[sel.chosen]) <= PriceOf(sel.offers[i])
    /\ \A i \in 1..(sel.chosen - 1) :
         PriceOf(sel.offers[i]) > PriceOf(sel.offers[sel.chosen])
    /\ sel.payload.total_price_in_inr = PriceOf(sel.offers[sel.chosen])

\* three offers, the last two tied at the minimum: the second is selected
C4_Witness ==
  /\ sel.done
  /\ Len(sel.offers) = 3
  /\ sel.chosen = 2
  /\ PriceOf(sel.offers[3]) = PriceOf(sel.offers[2])
  /\ sel.offers[3].price.grandTotal # sel.offers[2].price.grandTotal
  /\ PriceOf(sel.offers[1]) > PriceOf(sel.offers[2])

\* C5: a 2xx search response with an empty or missing offer list ends the
\* request in success with the "no offers found" message, never in an
\* error, for one-way and two-way searches.
C5_EmptyIsSuccess ==
  \A r \in Reqs :
    (/\ pc[r] = "done" /\ req[r].sent.issued
     /\ req[r].response.kind = "http" /\ Is2xx(req[r].response.status)
     /\ req[r].response.json /\ req[r].response.offers = 0)
    => /\ req[r].outcome.kind = "ok"
       /\ req[r].outcome.status = 200
       /\ DOMAIN req[r].payload = {"message"}

\* a two-way search answered with no offers ended in success
C5_Witness ==
  \E r \in Reqs :
    /\ pc[r] = "done" /\ req[r].sent.issued
    /\ req[r].sent.returnDate # NoneValue
    /\ req[r].response.kind = "http" /\ req[r].response.json
    /\ req[r].response.offers = 0
    /\ req[r].outcome.kind = "ok"

IsResultPayload(r) ==
  pc[r] = "done" /\ req[r].outcome.kind = "ok"
    /\ "journey_type" \in DOMAIN req[r].payload

\* C6: in every result payload journey_type is "two-way" exactly when the
\* caller supplied a duration and "one-way" otherwise, and a request with no
\* duration gets neither return_journey nor return_date.
C6_JourneyTypeFollowsDuration ==
  \A r \in Reqs :
    IsResultPayload(r) =>
      /\ req[r].payload.journey_type \in {"one-way", "two-way"}
      /\ req[r].payload.journey_type = "two-way" <=> req[r].duration # NoneValue
      /\ req[r].duration = NoneValue =>
           DOMAIN req[r].payload \cap {"return_journey", "return_date"} = {}

\* what C7 concludes for the request r: the query's returnDate is the ISO
\* text of departure date + N days, the search call carries it and a payload
\* with a return journey echoes it
ReturnDateIsDeparturePlusN(r) ==
  LET expected == PlusDays(Strptime(req[r].departure_date), DaysOf(req[r].duration))
  IN /\ IsIsoTextOf(req[r].returnDate, expected)
     /\ req[r].sent.issued => req[r].sent.returnDate = req[r].returnDate
     /\ (IsResultPayload(r) /\ "return_journey" \in DOMAIN req[r].payload)
          => /\ "return_date" \in DOMAIN req[r].payload
             /\ req[r].payload.return_date = req[r].sent.returnDate

RefreshFailed(r) ==
  /\ Called(r, "token")
  /\ pc[r] \notin {"token_post"}
  /\ \/ req[r].token_response.kind = "unbound"
     \/ ~Is2xx(req[r].token_response.status)

C9_Original ==
  \A r \in Reqs :
    req[r].sent.issued =>
      /\ req[r].sent.bearer # EmptyToken
      /\ req[r].sent.bearer = token
      /\ token_expiry # NoExpiry
      /\ token_expiry - req[r].checked_at > 300

\* C9 as amended: the bearer token of every search call is the credential's
\* token, and that credential either was valid by the validity rule at the
\* check made in that request or was written by a refresh that succeeded in
\* that request; the refreshed credential satisfies the validity rule
\* whenever the returned expires_in is more than 300 seconds.
C9_BearerIsCheckedOrRefreshed ==
  \A r \in Reqs :
    req[r].sent.issued =>
      /\ req[r].sent.bearer # EmptyToken
      /\ req[r].sent.bearer = token
      /\ token_expiry # NoExpiry
      /\ \/ /\ ~Called(r, "token")
            /\ token = req[r].token0 /\ token_expiry = req[r].expiry0
            /\ token_expiry - req[r].checked_at > 300
         \/ /\ req[r].calls = <<"token", "search">>
            /\ token = req[r].token_data.access_token
            /\ token_expiry >= req[r].checked_at + req[r].token_data.expires_in
            /\ req[r].token_data.expires_in > 300 =>
                 token_expiry - req[r].checked_at > 300

\* a search call went out with a token refreshed in that request whose
\* expiry is within 5 minutes of the check
C9_Witness ==
  \E r \in Reqs :
    /\ req[r].sent.issued
    /\ req[r].sent.bearer = req[r].token_data.access_token
    /\ req[r].token_data.expires_in <= 300
    /\ token_expiry - req[r].checked_at <= 300

RefreshInProgress == \E r \in Reqs : pc[r] \in {"store_token", "store_expiry"}

=============================================================================
